---- MODULE Spec2Model ----
(***************************************************************************)
(* A model of package configo (quincy/configo): the option registry        *)
(* ConfigoSet, its registration constructors, Set, Parse and               *)
(* WriteDefaultConfig, together with the parts of the standard flag        *)
(* package, the file at c.path and the process that Parse drives.          *)
(*                                                                         *)
(* Text is modelled as a sequence of one-character strings, so that the    *)
(* string functions Parse uses (Split, TrimSpace, HasPrefix, SplitN) and   *)
(* the value conversions (strconv.ParseBool, fmt %v) are computed          *)
(* character by character.                                                 *)
(***************************************************************************)
EXTENDS Integers, Sequences, FiniteSets, TLC

VARIABLES
    formal,      \* c.formal: name -> *Configo, every registered option
    actual,      \* c.actual: name -> *Configo, the options Set has set
    heap,        \* the host's variables the option values point to
    parsed,      \* c.parsed
    delimiter,   \* c.delimiter
    output,      \* c.output: "nil", "file" (an open file) or "nilfile" (a failed os.Create)
    flagFormal,  \* flag.CommandLine.formal: name -> flag.Value
    flagActual,  \* flag.CommandLine.actual: the names flag.Parse has set
    args,        \* os.Args[1:], tokenised: a sequence of [name, text]
    fsExists,    \* whether a file exists at c.path
    fsContent,   \* the bytes of the file at c.path
    status,      \* the process: "running", "panicked" or "exited"
    ret          \* what the last call returned and which calls it made

vars == <<formal, actual, heap, parsed, delimiter, output, flagFormal,
          flagActual, args, fsExists, fsContent, status, ret>>

----------------------------------------------------------------------------
(* Bounds of the model. *)

\* The number of entries on the command line.
MaxArgs == 1
\* The number of lines of a configuration file written by the environment.
MaxLines == 1
\* The longest file, in lines, of the programs that decode files
MaxFileLines == 3
\* The depth of a home directory and the length of a program name
MaxDepth == 2
MaxName == 3

----------------------------------------------------------------------------
(* Text: package strings. *)

\* The characters of the model in byte order (Go compares strings bytewise).
CharOrder == <<"\n", " ", "#", "0", "1", ":", "=", "a", "b", "c", "e", "f",
               "g", "h", "l", "r", "s", "t", "u", "x", "y">>

Ord(ch) == CHOOSE i \in 1..Len(CharOrder) : CharOrder[i] = ch

\* unicode.IsSpace, restricted to the characters of the model
IsSpace(ch) == ch \in {" ", "\n"}

\* s < t in Go's string order
RECURSIVE StrLess(_, _)
StrLess(s, t) ==
    IF t = <<>> THEN FALSE
    ELSE IF s = <<>> THEN TRUE
    ELSE IF Head(s) = Head(t) THEN StrLess(Tail(s), Tail(t))
    ELSE Ord(Head(s)) < Ord(Head(t))

\* strings.HasPrefix
HasPrefix(s, p) == Len(s) >= Len(p) /\ SubSeq(s, 1, Len(p)) = p

\* strings.Index from position i on, 1-based; 0 when sep does not occur
RECURSIVE IndexFrom(_, _, _)
IndexFrom(s, sep, i) ==
    IF i + Len(sep) - 1 > Len(s) THEN 0
    ELSE IF SubSeq(s, i, i + Len(sep) - 1) = sep THEN i
    ELSE IndexFrom(s, sep, i + 1)
Index(s, sep) == IndexFrom(s, sep, 1)

\* strings.TrimLeft and TrimRight of white space, as TrimSpace applies them
RECURSIVE TrimLeft(_)
TrimLeft(s) == IF s # <<>> /\ IsSpace(Head(s)) THEN TrimLeft(Tail(s)) ELSE s
RECURSIVE TrimRight(_)
TrimRight(s) ==
    IF s # <<>> /\ IsSpace(s[Len(s)]) THEN TrimRight(SubSeq(s, 1, Len(s) - 1)) ELSE s

\* strings.TrimSpace
TrimSpace(s) == TrimRight(TrimLeft(s))

\* strings.Split(s, "\n") from position i on, with the line begun at position b:
\* always at least one element
RECURSIVE SplitFrom(_, _, _)
SplitFrom(s, b, i) ==
    IF i > Len(s) THEN <<SubSeq(s, b, Len(s))>>
    ELSE IF s[i] = "\n" THEN <<SubSeq(s, b, i - 1)>> \o SplitFrom(s, i + 1, i + 1)
    ELSE SplitFrom(s, b, i + 1)
SplitLines(s) == SplitFrom(s, 1, 1)

\* (a split at the last occurrence of the separator)
SplitAtLast(s, sep) ==
    LET at == {k \in 1..(Len(s) - Len(sep) + 1) : SubSeq(s, k, k + Len(sep) - 1) = sep}
        i == CHOOSE k \in at : \A m \in at : m <= k
    IN IF at = {} THEN <<s>>
       ELSE <<SubSeq(s, 1, i - 1), SubSeq(s, i + Len(sep), Len(s))>>

\* strings.SplitN(s, sep, 2) for a non-empty s: one or two fields
SplitN2(s, sep) ==
    IF sep = <<>>
    THEN IF Len(s) < 2 THEN <<s>> ELSE <<SubSeq(s, 1, 1), SubSeq(s, 2, Len(s))>>
    ELSE LET i == Index(s, sep)
         IN IF i = 0 THEN <<s>>
            ELSE <<SubSeq(s, 1, i - 1), SubSeq(s, i + Len(sep), Len(s))>>

----------------------------------------------------------------------------
(* Typed value cells: the flag.Value implementations. *)

\* A host variable: a bool or a string (the fields are in the order TLC
\* keeps them in)
BoolCell(b) == [s |-> <<>>, b |-> b, typ |-> "bool"]
StringCell(s) == [s |-> s, b |-> FALSE, typ |-> "string"]

\* strconv.ParseBool
ParseBoolTrue == {<<"1">>, <<"t">>, <<"t", "r", "u", "e">>}
ParseBoolFalse == {<<"0">>, <<"f">>, <<"f", "a", "l", "s", "e">>}
ParseBool(s) ==
    IF s \in ParseBoolTrue THEN [v |-> TRUE, err |-> "nil"]
    ELSE IF s \in ParseBoolFalse THEN [v |-> FALSE, err |-> "nil"]
    ELSE [v |-> FALSE, err |-> "invalid"]

\* The interval of the example program, a user-defined flag.Value: a list of
\* durations, kept as the text of its elements (the model has lists of one
\* element: its texts have no comma); the empty list is the empty text.
IntervalCell(s) == [s |-> s, b |-> FALSE, typ |-> "interval"]

\* The value of a text of digits in a base, and the decimal text of a number
Digits == {"0", "1", "2", "3", "4", "5", "6", "7", "8", "9"}
DigitVal(ch) == CHOOSE d \in 0..9 : <<"0", "1", "2", "3", "4", "5", "6", "7", "8", "9">>[d + 1] = ch
RECURSIVE NumVal(_, _)
NumVal(s, base) ==
    IF s = <<>> THEN 0
    ELSE NumVal(SubSeq(s, 1, Len(s) - 1), base) * base + DigitVal(s[Len(s)])
RECURSIVE Decimal(_)
Decimal(n) ==
    IF n < 0 THEN <<"-">> \o Decimal(-n)
    ELSE IF n < 10 THEN <<(<<"0", "1", "2", "3", "4", "5", "6", "7", "8", "9">>)[n + 1]>>
    ELSE Decimal(n \div 10) \o Decimal(n % 10)

\* time.ParseDuration on the texts of the model, in whole seconds: an
\* optional sign, then "0" or groups of a decimal number and a unit, the
\* units of the model being s, m and h.  On an error the duration is 0.
RECURSIVE DurGroups(_, _, _)
DurGroups(s, i, acc) ==
    IF i > Len(s) THEN [v |-> acc, err |-> "nil"]
    ELSE LET rest == {k \in i..Len(s) : s[k] \notin Digits}
             j == IF rest = {} THEN Len(s) + 1
                  ELSE CHOOSE k \in rest : \A m \in rest : k <= m
         IN IF j = i \/ j > Len(s) \/ s[j] \notin {"s", "m", "h"}
            THEN [v |-> 0, err |-> "invalid"]
            ELSE DurGroups(s, j + 1,
                           acc + NumVal(SubSeq(s, i, j - 1), 10)
                                 * (IF s[j] = "s" THEN 1 ELSE IF s[j] = "m" THEN 60 ELSE 3600))
ParseDuration(s) ==
    LET signed == s # <<>> /\ s[1] \in {"+", "-"}
        body == IF signed THEN Tail(s) ELSE s
        r == DurGroups(body, 1, 0)
    IN IF body = <<"0">> THEN [v |-> 0, err |-> "nil"]
       ELSE IF body = <<>> \/ r.err # "nil" THEN [v |-> 0, err |-> "invalid"]
       ELSE [v |-> IF s[1] = "-" THEN -r.v ELSE r.v, err |-> "nil"]
ParseDurationOK(s) == ParseDuration(s).err = "nil"

\* Duration.String of a number of whole seconds: "0s", "5s", "1m30s",
\* "1h0m5s", with a sign before a negative one
RECURSIVE RenderDuration(_)
RenderDuration(n) ==
    IF n < 0 THEN <<"-">> \o RenderDuration(-n)
    ELSE IF n < 60 THEN Decimal(n) \o <<"s">>
    ELSE IF n < 3600 THEN Decimal(n \div 60) \o <<"m">> \o Decimal(n % 60) \o <<"s">>
    ELSE Decimal(n \div 3600) \o <<"h">> \o Decimal((n % 3600) \div 60) \o <<"m">>
         \o Decimal(n % 60) \o <<"s">>
\* Duration.String of what ParseDuration has read
DurationString(s) == RenderDuration(ParseDuration(s).v)

\* The numeric value types (intValue, int64Value, uintValue, uint64Value,
\* float64Value, durationValue): a cell keeps the number as the text its
\* String method prints.
NumericTypes == {"int", "int64", "uint", "uint64", "float64", "duration"}
NumCell(typ, s) == [s |-> s, b |-> FALSE, typ |-> typ]

\* (a parser that reads every number as octal)
ParseNumberOctal(typ, s) ==
    IF s = <<>> \/ \E i \in 1..Len(s) : s[i] \notin {"0", "1", "2", "3", "4", "5", "6", "7"}
    THEN [v |-> 0, err |-> "invalid"]
    ELSE [v |-> NumVal(s, 8), err |-> "nil"]

\* strconv.ParseInt(s, 0, 64), strconv.ParseUint(s, 0, 64) and
\* strconv.ParseFloat(s, 64) on the texts of the model, which have no
\* point, no exponent and no base prefix other than a leading zero, and are
\* too short to overflow: ParseInt and ParseFloat take a sign, ParseUint
\* does not; base 0 reads a text with a leading zero as octal, ParseFloat
\* reads it as decimal.  On an error the number returned is 0.
ParseNumber(typ, s) ==
    LET signed == typ \notin {"uint", "uint64"} /\ s # <<>> /\ s[1] \in {"+", "-"}
        body == IF signed THEN Tail(s) ELSE s
        sign == IF signed /\ s[1] = "-" THEN -1 ELSE 1
    IN IF body = <<>> \/ \E i \in 1..Len(body) : body[i] \notin Digits
       THEN [v |-> 0, err |-> "invalid"]
       ELSE IF typ = "float64" \/ Len(body) = 1 \/ Head(body) # "0"
       THEN [v |-> sign * NumVal(body, 10), err |-> "nil"]
       ELSE IF \E i \in 2..Len(body) : DigitVal(body[i]) > 7
       THEN [v |-> 0, err |-> "invalid"]
       ELSE [v |-> sign * NumVal(Tail(body), 8), err |-> "nil"]

\* (a Set of a value that reports no error)
ValueSetLenient(cell, s) ==
    IF cell.typ = "bool" THEN [cell |-> BoolCell(ParseBool(s).v), err |-> "nil"]
    ELSE [cell |-> [cell EXCEPT !.s = s], err |-> "nil"]

\* boolValue.Set / stringValue.Set / interval.Set and the Set of the numeric
\* values on the cell a Value points to: the new cell and the error.
\* boolValue.Set and the numeric ones store the parser's result before they
\* look at the error.
ValueSet(cell, s) ==
    IF cell.typ = "bool"
    THEN LET r == ParseBool(s) IN [cell |-> BoolCell(r.v), err |-> r.err]
    ELSE IF cell.typ = "interval"
    THEN IF Len(cell.s) > 0 THEN [cell |-> cell, err |-> "interval flag already set"]
         ELSE IF ~ParseDurationOK(s) THEN [cell |-> cell, err |-> "invalid"]
         ELSE [cell |-> IntervalCell(DurationString(s)), err |-> "nil"]
    ELSE IF cell.typ = "duration"
    THEN IF ParseDurationOK(s)
         THEN [cell |-> NumCell("duration", DurationString(s)), err |-> "nil"]
         ELSE [cell |-> NumCell("duration", <<"0", "s">>), err |-> "invalid"]
    ELSE IF cell.typ \in NumericTypes
    THEN LET r == ParseNumber(cell.typ, s)
         IN IF cell.typ = "float64" /\ r.err = "nil" /\ r.v = 0 /\ s[1] = "-"
            THEN [cell |-> NumCell(cell.typ, <<"-", "0">>), err |-> "nil"]  \* %v of -0.0
            ELSE [cell |-> NumCell(cell.typ, Decimal(r.v)), err |-> r.err]
    ELSE [cell |-> StringCell(s), err |-> "nil"]

\* boolValue.String / stringValue.String / interval.String; a numeric cell
\* keeps the text its String prints
ValueString(cell) ==
    IF cell.typ = "bool"
    THEN IF cell.b THEN <<"t", "r", "u", "e">> ELSE <<"f", "a", "l", "s", "e">>
    ELSE IF cell.typ = "interval" THEN <<"[">> \o cell.s \o <<"]">>
    ELSE cell.s

----------------------------------------------------------------------------
(* The registry: type ConfigoSet and type Configo. *)

\* A Configo: the descriptor of one option.  Value is the flag.Value, a
\* pointer to a host variable together with its dynamic type.
NewConfigo(name, usage, typ, ptr, defaultValue, isFlag, isConfig) ==
    [Name |-> name, Usage |-> usage, Value |-> [typ |-> typ, ptr |-> ptr],
     DefaultValue |-> defaultValue, IsFlag |-> isFlag, IsConfig |-> isConfig]

\* The empty map
NoConfigs == [n \in {} |-> 0]

\* m with m[name] = v
Put(m, name, v) == [n \in DOMAIN m \cup {name} |-> IF n = name THEN v ELSE m[n]]

\* What a call returned: err is "nil" or the error; a panic is recorded in status
\* and names its message in err.  route is the path Parse took; cmdSets and
\* fileSets are the calls of c.Set Parse made, in order, as <<name, text, err>>.
\* notice is the sink WriteDefaultConfig printed its notice to.
\* visited is the names Visit or VisitAll called fn with, in order.
\* given and returned are the inputs and the string of a call that returns a string.
Ret(op, err) ==
    [err |-> err, op |-> op, route |-> "", cmdSets |-> <<>>, fileSets |-> <<>>, notice |-> "",
     visited |-> <<>>, given |-> <<>>, returned |-> <<>>]

\* The registration constructors: for a value type, a family ("Both": X and
\* XVar, "Flag": XFlag and XFlagVar, "Config": XConfig and XConfigVar) and a
\* form ("Var": the caller passes the pointer, "New": the constructor
\* allocates it), the capability flags c.Var is called with and whether the
\* option is also defined in the flag package.
CtorBoth == [isFlag |-> TRUE, isConfig |-> TRUE, flagVar |-> TRUE]
CtorFlag == [isFlag |-> TRUE, isConfig |-> FALSE, flagVar |-> TRUE]
CtorConfig == [isFlag |-> FALSE, isConfig |-> TRUE, flagVar |-> FALSE]
Ctor(typ, family, form) ==
    IF family = "Both" THEN CtorBoth
    ELSE IF family = "Flag" THEN CtorFlag
    ELSE IF typ = "string" /\ form = "New" THEN CtorFlag  \* StringConfig calls c.StringFlagVar
    ELSE CtorConfig

\* The constructors of every value type.  level is "method" (c.IntVar, ...)
\* or "package" (configo.IntVar, ...).  The "Var" forms pass their own
\* capability flags and define the flag in the flag package or not; the
\* "New" forms of both levels allocate the variable and call a "Var" method.
CtorFlagged == [isFlag |-> FALSE, isConfig |-> TRUE, flagVar |-> TRUE]
AllTypes == {"bool", "string"} \cup NumericTypes
Levels == {"method", "package"}
CtorVarMethod(typ, family) ==
    IF family = "Both" THEN CtorBoth
    ELSE IF family = "Flag" THEN CtorFlag
    ELSE IF typ \in {"int", "int64"} THEN CtorFlagged  \* IntConfigVar, Int64ConfigVar call flag.XVar
    ELSE IF typ = "uint" THEN CtorFlag                 \* UintConfigVar: isFlag true, isConfig false
    ELSE CtorConfig
CtorVarPackage(typ, family) ==
    IF family = "Both"
    THEN IF typ = "int64" THEN CtorFlag ELSE CtorBoth  \* Int64Var: isConfig false
    ELSE IF family = "Flag" THEN CtorFlag
    ELSE IF typ \in {"int", "uint"} THEN CtorFlagged   \* IntConfigVar, UintConfigVar call flag.XVar
    ELSE IF typ = "uint64" THEN CtorBoth               \* Uint64ConfigVar: isFlag true, flag.Uint64Var
    ELSE CtorConfig
CtorOf(typ, family, form, level) ==
    IF form = "Var"
    THEN IF level = "method" THEN CtorVarMethod(typ, family) ELSE CtorVarPackage(typ, family)
    ELSE IF family = "Config" /\ typ = "uint" THEN CtorVarMethod(typ, "Both")    \* UintConfig calls c.UintVar
    ELSE IF family = "Config" /\ typ = "string" THEN CtorVarMethod(typ, "Flag")  \* StringConfig calls c.StringFlagVar
    ELSE CtorVarMethod(typ, family)

\* ConfigoSet.Var: the descriptor keeps value.String() as its default text;
\* a name that is already registered panics and leaves formal as it was.
VarNeverRedefined(name) == FALSE
VarRedefined(name) == name \in DOMAIN formal
\* (a Var that took no snapshot of the value)
VarWithoutSnapshot(typ, ptr, cell, name, usage, isFlag, isConfig) ==
    Put(formal, name, NewConfigo(name, usage, typ, ptr, <<>>, isFlag, isConfig))
Var(typ, ptr, cell, name, usage, isFlag, isConfig) ==
    Put(formal, name, NewConfigo(name, usage, typ, ptr, ValueString(cell), isFlag, isConfig))

\* ConfigoSet.Lookup: whether formal has the name (nil otherwise)
LookupAnything(f, name) == TRUE
Lookup(f, name) == name \in DOMAIN f

\* (a Set that records a descriptor of its own in actual)
SetRecordingText(f, act, hp, name, text) ==
    IF name \notin DOMAIN f
    THEN [err |-> "nosuch", actual |-> act, heap |-> hp]
    ELSE [err |-> "nil", actual |-> Put(act, name, [f[name] EXCEPT !.DefaultValue = text]),
          heap |-> [hp EXCEPT ![f[name].Value.ptr] = ValueSet(hp[f[name].Value.ptr], text).cell]]

\* ConfigoSet.Set on (formal f, actual act, heap hp): the error, actual and heap after
Set(f, act, hp, name, text) ==
    IF name \notin DOMAIN f
    THEN [err |-> "nosuch", actual |-> act, heap |-> hp]
    ELSE LET config == f[name]
             r == ValueSet(hp[config.Value.ptr], text)
             hp2 == [hp EXCEPT ![config.Value.ptr] = r.cell]
         IN IF r.err # "nil"
            THEN [err |-> r.err, actual |-> act, heap |-> hp2]
            ELSE [err |-> "nil", actual |-> Put(act, name, config), heap |-> hp2]

\* (the names of a map in decreasing order)
SortNamesDescending(S) ==
    CHOOSE seq \in [1..Cardinality(S) -> S] :
        \A i, j \in 1..Cardinality(S) : i < j => StrLess(seq[j], seq[i])

\* sortConfigs: the names of a map in increasing order
RECURSIVE SortNames(_)
SortNames(S) ==
    IF S = {} THEN <<>>
    ELSE LET least == CHOOSE n \in S : \A m \in S \ {n} : StrLess(n, m)
         IN <<least>> \o SortNames(S \ {least})
sortConfigs(configs) == [i \in 1..Cardinality(DOMAIN configs) |-> configs[SortNames(DOMAIN configs)[i]]]

\* ConfigoSet.out: the sink diagnostics go to
out == IF output = "nil" THEN "stderr" ELSE output

----------------------------------------------------------------------------
(* The flag package (flag.CommandLine), as far as configo drives it. *)

\* flag.Parse from argument i on: an argument that names no defined flag, or
\* whose text the flag's Value rejects, ends the process (flag.ExitOnError);
\* every other argument is stored through the flag's pointer.
RECURSIVE FlagParse(_, _, _)
FlagParse(i, fa, hp) ==
    IF i > Len(args) THEN [exit |-> FALSE, flagActual |-> fa, heap |-> hp]
    ELSE IF args[i].name \notin DOMAIN flagFormal
    THEN [exit |-> TRUE, flagActual |-> fa, heap |-> hp]
    ELSE LET ptr == flagFormal[args[i].name].ptr
             r == ValueSet(hp[ptr], args[i].text)
             hp2 == [hp EXCEPT ![ptr] = r.cell]
         IN IF r.err # "nil"
            THEN [exit |-> TRUE, flagActual |-> fa, heap |-> hp2]
            ELSE FlagParse(i + 1, fa \cup {args[i].name}, hp2)

\* flag.Visit(func(f) { c.Set(f.Name, f.Value.String()) }) over the names
\* still to visit, in increasing order; the error of c.Set is dropped.
RECURSIVE VisitSet(_, _, _, _)
VisitSet(names, act, hp, sets) ==
    IF names = <<>> THEN [actual |-> act, heap |-> hp, sets |-> sets]
    ELSE LET name == Head(names)
             text == ValueString(hp[flagFormal[name].ptr])
             r == Set(formal, act, hp, name, text)
         IN VisitSet(Tail(names), r.actual, r.heap, Append(sets, <<name, text, r.err>>))

----------------------------------------------------------------------------
(* The configuration file. *)

\* c.name, the base name of the program
ProgName == <<"p">>

\* time.Now().Format(time.RFC822Z), for one instant
Timestamps == {<<"0", "7", " ", "A", "u", "g", " ", "1", "3", " ", "2", "0", ":", "1", "5", " ",
                 "-", "0", "6", "0", "0">>}

\* "# Default config file for %s\n" and "# Written on %s\n\n"
Header(ts) ==
    <<"#", " ", "D", "e", "f", "a", "u", "l", "t", " ", "c", "o", "n", "f", "i", "g", " ",
      "f", "i", "l", "e", " ", "f", "o", "r", " ">> \o ProgName \o <<"\n">>
    \o <<"#", " ", "W", "r", "i", "t", "t", "e", "n", " ", "o", "n", " ">> \o ts \o <<"\n", "\n">>

\* (an entry that renders the value the option has now)
EntryOfCurrentValue(config, delim) ==
    <<"#", " ">> \o config.Usage \o <<"\n">>
    \o config.Name \o delim \o ValueString(heap[config.Value.ptr]) \o <<"\n", "\n">>

\* (an entry written with "=" whatever the delimiter is)
EntryWithEquals(config, delim) ==
    <<"#", " ">> \o config.Usage \o <<"\n">>
    \o config.Name \o <<"=">> \o config.DefaultValue \o <<"\n", "\n">>

\* "# %s\n%s%s%s\n\n" of usage, name, delimiter and default text
Entry(config, delim) ==
    <<"#", " ">> \o config.Usage \o <<"\n">>
    \o config.Name \o delim \o config.DefaultValue \o <<"\n", "\n">>

\* c.VisitAll(func(config) { if config.IsConfig { Fprintf(...) } }) over a sorted list
RECURSIVE WriteEntries(_, _)
WriteEntries(configs, delim) ==
    IF configs = <<>> THEN <<>>
    ELSE (IF Head(configs).IsConfig THEN Entry(Head(configs), delim) ELSE <<>>)
         \o WriteEntries(Tail(configs), delim)

\* ConfigoSet.WriteDefaultConfig: the notice goes to c.out(); when os.Create
\* fails its nil file stays in c.output and the error is returned; otherwise the
\* header and the entries are written to the file and c.output is restored.
WriteDefaultConfig(createFails, ts) ==
    IF createFails
    THEN [err |-> "create", output |-> "nilfile", fsExists |-> fsExists,
          fsContent |-> fsContent, notice |-> out]
    ELSE [err |-> "nil", output |-> output, fsExists |-> TRUE,
          fsContent |-> Header(ts) \o WriteEntries(sortConfigs(formal), delimiter),
          notice |-> out]

\* The loop of Parse over the lines of the file from line i (0-based, as
\* range yields it): the lines that are not blank and not comments are split
\* at the delimiter.  A line without the delimiter builds an error value that
\* is dropped, and the read of fields[1] then panics; a name that is not in
\* actual and not in formal panics; every other name not in actual is Set and
\* the error of c.Set is dropped.
RECURSIVE ParseLines(_, _, _, _, _)
ParseLines(lines, i, act, hp, sets) ==
    IF i >= Len(lines) THEN [panic |-> "", actual |-> act, heap |-> hp, sets |-> sets]
    ELSE LET line == TrimSpace(lines[i + 1])
         IN IF Len(line) > 0 /\ ~HasPrefix(line, <<"#">>)
            THEN LET fields == SplitN2(line, delimiter)
                 IN IF Len(fields) # 2
                    THEN [panic |-> "index out of range", actual |-> act, heap |-> hp, sets |-> sets]
                    ELSE LET name == TrimSpace(fields[1])
                             value == TrimSpace(fields[2])
                         IN IF name \in DOMAIN act
                            THEN ParseLines(lines, i + 1, act, hp, sets)
                            ELSE IF ~Lookup(formal, name)
                            THEN [panic |-> "unknown configuration item", actual |-> act,
                                  heap |-> hp, sets |-> sets]
                            ELSE LET r == Set(formal, act, hp, name, value)
                                 IN ParseLines(lines, i + 1, r.actual, r.heap,
                                               Append(sets, <<name, value, r.err>>))
            ELSE ParseLines(lines, i + 1, act, hp, sets)

----------------------------------------------------------------------------
(* The inputs of the model. *)

\* The names the host program registers; the command line and the file use
\* the same names, which are unknown names while they are not registered
RegNames == {<<"a">>, <<"b">>}

Types == {"bool", "string"}
Families == {"Both", "Flag", "Config"}
Forms == {"Var", "New"}
\* The initial values the host program registers
Defaults(typ) == IF typ = "bool" THEN {BoolCell(TRUE)} ELSE {StringCell(<<"x">>)}
Usages == {<<"u">>}

\* The texts of command-line entries and the command lines
ArgTexts == {<<"1">>, <<"y">>}
ArgEntries == [name : RegNames, text : ArgTexts]
ArgLists == UNION {[1..n -> ArgEntries] : n \in 0..MaxArgs}

\* The lines of a file written by the environment: entries, an entry with
\* blanks around its parts, a line without the delimiter
FileLines == {<<"a", "=", "0">>, <<" ", "b", " ", "=", " ", "y", " ">>, <<"a">>}
RECURSIVE JoinLines(_)
JoinLines(lines) ==
    IF lines = <<>> THEN <<>> ELSE Head(lines) \o <<"\n">> \o JoinLines(Tail(lines))
SampleFiles == {JoinLines(ls) : ls \in UNION {[1..n -> FileLines] : n \in 0..MaxLines}}

\* What the file system answers Parse: no fault, or a failure of os.Stat
\* other than absence, of ioutil.ReadFile, or of os.Create
Faults == {"none", "stat", "read", "create"}

----------------------------------------------------------------------------
(* The operations. *)

\* The host variables: each option name has a variable of its own
Ptrs == RegNames
OwnPtr(name) == name

\* No call has returned anything yet
Idle == Ret("", "nil")

\* The declaration phase of the host program: its init functions register
\* the options before main calls Parse.
Declaring == ~parsed /\ flagActual = {} /\ ret = Idle

\* NewConfigoSet and the flag package before any registration, in a process
\* started with some command line; no file has been written yet.
Start(argLists) ==
    /\ formal = NoConfigs
    /\ actual = NoConfigs
    /\ heap = NoConfigs
    /\ parsed = FALSE
    /\ delimiter = <<"=">>
    /\ output = "nil"
    /\ flagFormal = NoConfigs
    /\ flagActual = {}
    /\ args \in argLists
    /\ fsExists = FALSE
    /\ fsContent = <<>>
    /\ status = "running"
    /\ ret = Idle

Init == Start(ArgLists)

\* One of the registration constructors, given what it passes on (ctor):
\* newXValue stores the initial value through the pointer,
\* c.Var registers the descriptor or panics, and the constructors with
\* flagVar define the flag in the flag package as well.  ptr is a variable of
\* the host program: one it passes (form "Var"), which may be the variable of
\* another option of the same type, or the one the constructor allocates.
Constructed(ctor, typ, form, name, cell, usage, ptr) ==
    /\ status = "running"
    /\ ptr \in DOMAIN heap => form = "Var" /\ heap[ptr].typ = typ
    /\ ptr \notin DOMAIN heap => ptr = OwnPtr(name)
    /\ LET stored == Put(heap, ptr, cell)
       IN IF VarRedefined(name)
          THEN /\ status' = "panicked"
               /\ ret' = Ret("Var", "flag redefined")
               /\ heap' = IF ptr \in DOMAIN heap THEN stored ELSE heap
               /\ UNCHANGED <<formal, flagFormal>>
          ELSE IF ctor.flagVar /\ name \in DOMAIN flagFormal
          THEN /\ status' = "panicked"
               /\ ret' = Ret("flag.Var", "flag redefined")
               /\ heap' = stored
               /\ formal' = Var(typ, ptr, cell, name, usage, ctor.isFlag, ctor.isConfig)
               /\ UNCHANGED flagFormal
          ELSE /\ status' = status
               /\ ret' = Idle
               /\ heap' = stored
               /\ formal' = Var(typ, ptr, cell, name, usage, ctor.isFlag, ctor.isConfig)
               /\ flagFormal' = IF ctor.flagVar
                                THEN Put(flagFormal, name, [typ |-> typ, ptr |-> ptr])
                                ELSE flagFormal
    /\ UNCHANGED <<actual, parsed, delimiter, output, flagActual, args, fsExists, fsContent>>

Register(typ, family, form, name, cell, usage, ptr) ==
    Constructed(Ctor(typ, family, form), typ, form, name, cell, usage, ptr)

\* (a Parse that does not look at the command line)
ParseWithoutCommandLine ==
    [exit |-> FALSE, flagActual |-> flagActual, actual |-> actual, heap |-> heap, sets |-> <<>>]

\* ConfigoSet.Parse up to the file: flag.Parse, then c.Set of every flag the
\* command line has set.
ParseCommandLine ==
    LET fp == FlagParse(1, flagActual, heap)
    IN IF fp.exit
       THEN [exit |-> TRUE, flagActual |-> fp.flagActual, actual |-> actual,
             heap |-> fp.heap, sets |-> <<>>]
       ELSE LET cmd == VisitSet(SortNames(fp.flagActual), actual, fp.heap, <<>>)
            IN [exit |-> FALSE, flagActual |-> fp.flagActual, actual |-> cmd.actual,
                heap |-> cmd.heap, sets |-> cmd.sets]

\* (an os.Stat that never finds the file)
StatAlwaysAbsent(fault) == "notexist"

\* os.Stat(c.path) as Parse looks at it: an error that is not absence, the
\* absence of the file, or its presence
Stat(fault) ==
    IF fault = "stat" THEN "error"
    ELSE IF ~fsExists THEN "notexist"
    ELSE "ok"

\* (a ReadFile that never fails)
ReadFileNeverFails(fault) == "ok"

\* ioutil.ReadFile(c.path) as Parse looks at it: an error, or the content
ReadFile(fault) == IF fault = "read" THEN "error" ELSE "ok"

\* ConfigoSet.Parse, with the answer of the file system and the time as inputs.
Parse(fault, ts) ==
    /\ status = "running"
    /\ \E cmd \in {ParseCommandLine} :
          LET r == [Ret("Parse", "nil") EXCEPT !.cmdSets = cmd.sets]
          IN /\ flagActual' = cmd.flagActual
             /\ IF cmd.exit
                THEN /\ status' = "exited"
                     /\ ret' = [r EXCEPT !.err = "exit", !.route = "flag"]
                     /\ heap' = cmd.heap
                     /\ UNCHANGED <<actual, parsed, output, fsExists, fsContent>>
                ELSE IF Stat(fault) = "error"
                THEN /\ ret' = [r EXCEPT !.err = "stat", !.route = "stat"]
                     /\ actual' = cmd.actual
                     /\ heap' = cmd.heap
                     /\ UNCHANGED <<parsed, output, fsExists, fsContent, status>>
                ELSE IF Stat(fault) = "notexist"
                THEN \E wd \in {WriteDefaultConfig(fault = "create", ts)} :
                     /\ ret' = [r EXCEPT !.err = wd.err, !.route = "bootstrap",
                                         !.notice = wd.notice]
                     /\ actual' = cmd.actual
                     /\ heap' = cmd.heap
                     /\ parsed' = TRUE
                     /\ output' = wd.output
                     /\ fsExists' = wd.fsExists
                     /\ fsContent' = wd.fsContent
                     /\ UNCHANGED status
                ELSE IF parsed
                THEN /\ ret' = [r EXCEPT !.route = "skip"]
                     /\ actual' = cmd.actual
                     /\ heap' = cmd.heap
                     /\ UNCHANGED <<parsed, output, fsExists, fsContent, status>>
                ELSE IF ReadFile(fault) = "error"
                THEN /\ ret' = [r EXCEPT !.err = "read", !.route = "read"]
                     /\ actual' = cmd.actual
                     /\ heap' = cmd.heap
                     /\ UNCHANGED <<parsed, output, fsExists, fsContent, status>>
                ELSE \E file \in {ParseLines(SplitLines(fsContent), 0, cmd.actual, cmd.heap, <<>>)} :
                     /\ ret' = [r EXCEPT !.err = (IF file.panic = "" THEN "nil" ELSE file.panic),
                                         !.route = "file", !.fileSets = file.sets]
                     /\ actual' = file.actual
                     /\ heap' = file.heap
                     /\ parsed' = (IF file.panic = "" THEN TRUE ELSE parsed)
                     /\ status' = (IF file.panic = "" THEN status ELSE "panicked")
                     /\ UNCHANGED <<output, fsExists, fsContent>>
    /\ UNCHANGED <<formal, flagFormal, delimiter, args>>

\* The environment writes the file at c.path (an editor, an installer).
EnvWriteFile(content) ==
    /\ status = "running"
    /\ fsExists' = TRUE
    /\ fsContent' = content
    /\ ret' = Idle
    /\ UNCHANGED <<formal, actual, heap, parsed, delimiter, output, flagFormal,
                   flagActual, args, status>>

\* The environment removes the file at c.path.
EnvRemoveFile ==
    /\ status = "running"
    /\ fsExists
    /\ fsExists' = FALSE
    /\ fsContent' = <<>>
    /\ ret' = Idle
    /\ UNCHANGED <<formal, actual, heap, parsed, delimiter, output, flagFormal,
                   flagActual, args, status>>

\* The process ends, after main has called Parse or with a panic, and the
\* program is started again, with some command line: a new registry and flag
\* set; the file at c.path stays.
Restart ==
    /\ ret.op = "Parse" \/ status # "running"
    /\ formal' = NoConfigs
    /\ actual' = NoConfigs
    /\ heap' = NoConfigs
    /\ parsed' = FALSE
    /\ delimiter' = <<"=">>
    /\ output' = "nil"
    /\ flagFormal' = NoConfigs
    /\ flagActual' = {}
    /\ args' \in ArgLists
    /\ status' = "running"
    /\ ret' = Idle
    /\ UNCHANGED <<fsExists, fsContent>>

\* A direct call of ConfigoSet.Set by a host program that holds the ConfigoSet.
SetCall(name, text) ==
    /\ status = "running"
    /\ \E r \in {Set(formal, actual, heap, name, text)} :
          /\ actual' = r.actual
          /\ heap' = r.heap
          /\ ret' = Ret("Set", r.err)
    /\ UNCHANGED <<formal, parsed, delimiter, output, flagFormal, flagActual, args,
                   fsExists, fsContent, status>>

\* The texts of direct Set calls
SetTexts == {<<"0">>, <<"y">>}

\* A registration in an init function of the host program
Declare(typ, family, form, name, cell, usage, ptr) ==
    Declaring /\ Register(typ, family, form, name, cell, usage, ptr)

\* A host program that uses the package-level functions, as the README and
\* the example do: its init functions register the options, main calls Parse;
\* the file changes under it and the program is run again.
Next ==
    \/ \E typ \in Types, family \in Families, form \in Forms, name \in RegNames,
          usage \in Usages, ptr \in Ptrs :
          \E cell \in Defaults(typ) :
             Declare(typ, family, form, name, cell, usage, ptr)
    \/ \E fault \in Faults, ts \in Timestamps : Parse(fault, ts)
    \/ \E content \in SampleFiles : EnvWriteFile(content)
    \/ EnvRemoveFile
    \/ Restart

Spec == Init /\ [][Next]_vars

\* A host program that holds a ConfigoSet and calls its methods in any order:
\* registrations, Set and Parse.
\* The command lines of such a host: no argument, or one
ShortArgLists == {<<>>} \cup {<<e>> : e \in ArgEntries}
InitAPI == Start(ShortArgLists)

NextAPI ==
    \/ \E typ \in Types, family \in Families, form \in Forms, name \in RegNames,
          usage \in Usages, ptr \in Ptrs :
          \E cell \in Defaults(typ) : Register(typ, family, form, name, cell, usage, ptr)
    \/ \E name \in RegNames, text \in SetTexts : SetCall(name, text)
    \/ \E ts \in Timestamps : Parse("none", ts)
    \/ \E content \in SampleFiles : EnvWriteFile(content)

SpecAPI == InitAPI /\ [][NextAPI]_vars

\* The declarations of a host program alone: every sequence of calls of the
\* registration constructors.
NextReg ==
    \E typ \in Types, family \in Families, form \in Forms, name \in RegNames,
       usage \in Usages, ptr \in Ptrs :
       \E cell \in Defaults(typ) : Register(typ, family, form, name, cell, usage, ptr)

SpecReg == Init /\ [][NextReg]_vars

\* The package-level Var with a user-defined flag.Value, as the example
\* program registers its interval: configuration.Var, and flag.Var when
\* isFlag.  Var stores nothing through the value; the variable is the empty
\* list of the host program.
RegisterVar(name, usage, isFlag, isConfig) ==
    /\ status = "running"
    /\ Declaring
    /\ IF VarRedefined(name)
       THEN /\ status' = "panicked"
            /\ ret' = Ret("Var", "flag redefined")
            /\ UNCHANGED <<formal, flagFormal, heap>>
       ELSE /\ heap' = Put(heap, OwnPtr(name), IntervalCell(<<>>))
            /\ formal' = Var("interval", OwnPtr(name), IntervalCell(<<>>), name, usage,
                             isFlag, isConfig)
            /\ flagFormal' = IF isFlag
                             THEN Put(flagFormal, name, [typ |-> "interval", ptr |-> OwnPtr(name)])
                             ELSE flagFormal
            /\ ret' = Idle
            /\ UNCHANGED status
    /\ UNCHANGED <<actual, parsed, delimiter, output, flagActual, args, fsExists, fsContent>>

\* The command lines of such a program: no argument, or one with a duration
\* or with a text that is none
IntervalArgTexts == {<<"1", "s">>, <<"y">>}
IntervalArgLists ==
    {<<>>} \cup {<<e>> : e \in [name : RegNames, text : IntervalArgTexts]}
InitVar == Start(IntervalArgLists)

NextVar ==
    \/ \E name \in RegNames, usage \in Usages, isFlag \in BOOLEAN, isConfig \in BOOLEAN :
          RegisterVar(name, usage, isFlag, isConfig)
    \/ \E ts \in Timestamps : Parse("none", ts)
    \/ \E content \in SampleFiles : EnvWriteFile(content)

SpecVar == InitVar /\ [][NextVar]_vars

\* A host program that registers options of every value type through every
\* constructor and parses a command line.
CtorDefault(typ) ==
    IF typ = "bool" THEN BoolCell(TRUE)
    ELSE IF typ = "string" THEN StringCell(<<"x">>)
    ELSE IF typ = "duration" THEN NumCell(typ, <<"0", "s">>)
    ELSE NumCell(typ, <<"0">>)
RegisterCtor(typ, family, form, level, name) ==
    /\ Declaring
    /\ Constructed(CtorOf(typ, family, form, level), typ, form, name,
                   CtorDefault(typ), <<"u">>, OwnPtr(name))
NextCtor ==
    \/ \E typ \in AllTypes, family \in Families, form \in Forms, level \in Levels,
          name \in RegNames :
          RegisterCtor(typ, family, form, level, name)
    \/ \E ts \in Timestamps : Parse("none", ts)
SpecCtor == InitAPI /\ [][NextCtor]_vars

\* Programs whose string options have help texts and defaults of every shape:
\* an empty default, one with the delimiter, one that starts with '#', and a
\* help text or a default with a line break.  A run without a file writes the
\* default file, and the next run of the program reads it.
CodecOptions ==
    {[usage |-> <<"u">>, cell |-> StringCell(<<"x">>)],
     [usage |-> <<"u">>, cell |-> StringCell(<<>>)],
     [usage |-> <<"u">>, cell |-> StringCell(<<"x", "=", "y">>)],
     [usage |-> <<"u">>, cell |-> StringCell(<<"#", "x">>)],
     [usage |-> <<"u">>, cell |-> StringCell(<<"x", "\n", "y">>)],
     [usage |-> <<"u", "\n", "x">>, cell |-> StringCell(<<"x">>)]}
RegisterCodec(name, option) ==
    Declaring /\ Register("string", "Both", "Var", name, option.cell, option.usage, OwnPtr(name))

NextCodec ==
    \/ \E name \in RegNames, option \in CodecOptions : RegisterCodec(name, option)
    \/ \E ts \in Timestamps : Parse("none", ts)
    \/ Restart

SpecCodec == InitAPI /\ [][NextCodec]_vars

\* A host program that chooses its delimiter, registers string options and
\* parses files the environment or an earlier run has written; its command
\* line is empty.
Delimiters == {<<"=">>, <<":">>}
SetDelimiter(d) ==
    /\ status = "running"
    /\ delimiter' = d
    /\ ret' = Idle
    /\ UNCHANGED <<formal, actual, heap, parsed, output, flagFormal, flagActual, args,
                   fsExists, fsContent, status>>

\* Lines of a file: a comment, a blank line, entries whose value has the
\* delimiter or begins with '#', with and without blanks around the parts
DecodeLines ==
    {<<"#", "c">>, <<>>, <<"a", "=", "x", "=", "y">>,
     <<" ", "b", " ", "=", " ", "#", "x", " ">>, <<"a", ":", "x", "=", "y">>}
DecodeFiles == {JoinLines(ls) : ls \in UNION {[1..n -> DecodeLines] : n \in 0..MaxFileLines}}
FileDefaults == {<<"x", "=", "y">>, <<"#", "x">>}
RegisterFile(name, default) ==
    Declaring /\ Register("string", "Both", "Var", name, StringCell(default), <<"u">>, OwnPtr(name))
Rerun == Restart /\ args' = <<>>
\* The file is there before the program looks for it
InstallFile(content) == Declaring /\ ~fsExists /\ EnvWriteFile(content)

NextFile ==
    \/ \E d \in Delimiters : SetDelimiter(d)
    \/ \E name \in RegNames, default \in FileDefaults : RegisterFile(name, default)
    \/ \E ts \in Timestamps : Parse("none", ts)
    \/ \E content \in DecodeFiles : InstallFile(content)
    \/ Rerun
SpecFile == Start({<<>>}) /\ [][NextFile]_vars

\* ConfigoSet.Visit and ConfigoSet.VisitAll with a function that notes the
\* name of the option it is called with.
Visit ==
    /\ status = "running"
    /\ ret' = [Ret("Visit", "nil") EXCEPT
                 !.visited = [i \in 1..Len(sortConfigs(actual)) |-> sortConfigs(actual)[i].Name]]
    /\ UNCHANGED <<formal, actual, heap, parsed, delimiter, output, flagFormal, flagActual,
                   args, fsExists, fsContent, status>>
VisitAll ==
    /\ status = "running"
    /\ ret' = [Ret("VisitAll", "nil") EXCEPT
                 !.visited = [i \in 1..Len(sortConfigs(formal)) |-> sortConfigs(formal)[i].Name]]
    /\ UNCHANGED <<formal, actual, heap, parsed, delimiter, output, flagFormal, flagActual,
                   args, fsExists, fsContent, status>>

\* A host program that registers options, sets them and visits them, in any
\* order; one name is a prefix of another.
VisitNames == {<<"a">>, <<"a", "b">>, <<"b">>}
RegisterVisit(name) ==
    Register("string", "Both", "Var", name, StringCell(<<"x">>), <<"u">>, name)
NextVisit ==
    \/ \E name \in VisitNames : RegisterVisit(name)
    \/ \E name \in VisitNames, text \in SetTexts : SetCall(name, text)
    \/ Visit
    \/ VisitAll
SpecVisit == Start({<<>>}) /\ [][NextVisit]_vars

\* Paths: package path/filepath.  The elements of a path between its
\* separators
RECURSIVE Elems(_, _, _)
Elems(s, b, i) ==
    IF i > Len(s) THEN <<SubSeq(s, b, Len(s))>>
    ELSE IF s[i] = "/" THEN <<SubSeq(s, b, i - 1)>> \o Elems(s, i + 1, i + 1)
    ELSE Elems(s, b, i + 1)
RECURSIVE JoinElems(_)
JoinElems(elems) ==
    IF elems = <<>> THEN <<>>
    ELSE IF Len(elems) = 1 THEN Head(elems)
    ELSE Head(elems) \o <<"/">> \o JoinElems(Tail(elems))
\* filepath.Clean on paths that have no ".." element: empty and "." elements
\* are dropped, a rooted path stays rooted, the empty path is "."
IsElem(e) == e # <<>> /\ e # <<".">>
Clean(s) ==
    LET body == JoinElems(SelectSeq(Elems(s, 1, 1), IsElem))
    IN IF s # <<>> /\ s[1] = "/" THEN <<"/">> \o body
       ELSE IF body = <<>> THEN <<".">>
       ELSE body
\* filepath.Join of two elements: the empty ones are ignored, the others are
\* joined with a separator and the result is cleaned
PathJoin(a, b) ==
    IF a = <<>> /\ b = <<>> THEN <<>>
    ELSE IF a = <<>> THEN Clean(b)
    ELSE IF b = <<>> THEN Clean(a)
    ELSE Clean(a \o <<"/">> \o b)

\* DefaultConfigPath: resolved says whether user.Current() succeeded, home
\* is usr.HomeDir, prog is baseProgName
DefaultConfigPath(resolved, home, prog) ==
    IF ~resolved THEN <<".">> \o prog \o <<"r", "c">>
    ELSE <<".">> \o PathJoin(home, prog) \o <<"r", "c">>

\* The home directories and the program names of the model
HomeElems == {<<"h">>, <<"u">>}
Homes ==
    {<<"/">> \o JoinElems(es) : es \in UNION {[1..n -> HomeElems] : n \in 0..MaxDepth}}
ProgNames == UNION {[1..n -> {"p", "q"}] : n \in 1..MaxName}

\* The package asks for its default path, for some user and program
DefaultConfigPathCall(resolved, home, prog) ==
    /\ status = "running"
    /\ ret' = [Ret("DefaultConfigPath", "nil") EXCEPT
                 !.given = <<resolved, home, prog>>,
                 !.returned = DefaultConfigPath(resolved, home, prog)]
    /\ UNCHANGED <<formal, actual, heap, parsed, delimiter, output, flagFormal, flagActual,
                   args, fsExists, fsContent, status>>
NextPath ==
    \E resolved \in BOOLEAN, home \in Homes, prog \in ProgNames :
        DefaultConfigPathCall(resolved, IF resolved THEN home ELSE <<>>, prog)
SpecPath == Start({<<>>}) /\ [][NextPath]_vars

\* A host program that registers options of the value types with values of
\* their domains, sets them from texts, and sets an option from the
\* rendering of the value it has: ConfigoSet.Set(name, Value.String()).
RoundTripTypes == {"bool", "int", "int64", "uint", "uint64", "string", "duration"}
ValueDomain(typ) ==
    IF typ = "bool" THEN {BoolCell(TRUE), BoolCell(FALSE)}
    ELSE IF typ = "string" THEN {StringCell(<<>>), StringCell(<<"x">>), StringCell(<<" ", "0", "7">>)}
    ELSE IF typ = "duration"
    THEN {NumCell(typ, s) : s \in {<<"0", "s">>, <<"5", "s">>, <<"1", "m", "3", "0", "s">>,
                                   <<"1", "h", "0", "m", "0", "s">>}}
    ELSE IF typ \in {"int", "int64"}
    THEN {NumCell(typ, s) : s \in {<<"0">>, <<"7">>, <<"1", "0">>, <<"-", "3">>}}
    ELSE {NumCell(typ, s) : s \in {<<"0">>, <<"8">>, <<"1", "2">>}}
ValueTexts == {<<"0", "1", "0">>, <<"9", "0", "s">>, <<"y">>, <<"+", "4">>}
RegisterValue(name, typ, cell) ==
    /\ Declaring
    /\ Constructed(CtorOf(typ, "Both", "Var", "method"), typ, "Var", name, cell, <<"u">>,
                   OwnPtr(name))
SetRendering(name) ==
    /\ status = "running"
    /\ name \in DOMAIN formal
    /\ \E r \in {Set(formal, actual, heap, name, ValueString(heap[formal[name].Value.ptr]))} :
          /\ actual' = r.actual
          /\ heap' = r.heap
          /\ ret' = [Ret("Set", r.err) EXCEPT
                       !.given = <<name, heap[formal[name].Value.ptr]>>]
    /\ UNCHANGED <<formal, parsed, delimiter, output, flagFormal, flagActual, args,
                   fsExists, fsContent, status>>
NextValue ==
    \/ \E name \in RegNames, typ \in RoundTripTypes :
          \E cell \in ValueDomain(typ) : RegisterValue(name, typ, cell)
    \/ \E name \in RegNames, text \in ValueTexts : SetCall(name, text)
    \/ \E name \in RegNames : SetRendering(name)
SpecValue == Start({<<>>}) /\ [][NextValue]_vars

\* A host program that registers bool options, on variables of their own or
\* on one variable, and parses a file that has several entries for a name;
\* its command line is empty.
RepeatLines ==
    {<<"b", "=", "y">>, <<"b", "=", "1">>, <<"b", "=", "0">>, <<"a", "=", "0">>}
RepeatFiles == {JoinLines(ls) : ls \in UNION {[1..n -> RepeatLines] : n \in 0..MaxFileLines}}
RegisterRepeat(name, ptr) ==
    Declaring /\ Register("bool", "Both", "Var", name, BoolCell(TRUE), <<"u">>, ptr)
NextRepeat ==
    \/ \E name \in RegNames, ptr \in Ptrs : RegisterRepeat(name, ptr)
    \/ \E content \in RepeatFiles : InstallFile(content)
    \/ \E ts \in Timestamps : Parse("none", ts)
SpecRepeat == Start({<<>>}) /\ [][NextRepeat]_vars

----------------------------------------------------------------------------
(* What the properties below speak about. *)

\* The value an option resolves to: what its Value points to
ValueOf(n) == heap[formal[n].Value.ptr]

\* The value a text stands for in a type
CellOf(typ, text) ==
    IF typ = "bool" THEN BoolCell(text \in ParseBoolTrue) ELSE StringCell(text)

\* Another option uses the same host variable
Shared(n) == \E m \in DOMAIN formal \ {n} : formal[m].Value.ptr = formal[n].Value.ptr

\* The command line supplies the option; the text of its last entry for it
CmdSupplied(n) == \E i \in 1..Len(args) : args[i].name = n
LastCmdText(n) ==
    LET last == CHOOSE i \in 1..Len(args) :
                    args[i].name = n /\ \A j \in (i + 1)..Len(args) : args[j].name # n
    IN args[last].text

\* The lines of a file that are neither blank nor comments, trimmed
SemanticLines(content) ==
    {l \in {TrimSpace(SplitLines(content)[i]) : i \in 1..Len(SplitLines(content))} :
        Len(l) > 0 /\ ~HasPrefix(l, <<"#">>)}

\* The entries of a file: the name and the value of each semantic line that
\* has the delimiter
FileEntries(content) ==
    {[name |-> TrimSpace(SplitN2(l, delimiter)[1]), text |-> TrimSpace(SplitN2(l, delimiter)[2])] :
        l \in {m \in SemanticLines(content) : Len(SplitN2(m, delimiter)) = 2}}

\* The names Parse applied from the file
FileSetNames == {ret.fileSets[k][1] : k \in 1..Len(ret.fileSets)}

----------------------------------------------------------------------------
(* C1 *)

\* C1: after Parse has returned, an option registered for both the command
\* line and the file that the command line supplies with a value A, while the
\* file has an entry for it with another value B, resolves to A, and Parse has
\* applied no file entry for it.
C1_Precedence ==
    (ret.op = "Parse" /\ ret.err = "nil" /\ fsExists)
    => \A n \in DOMAIN formal :
          ( /\ formal[n].IsFlag /\ formal[n].IsConfig
            /\ CmdSupplied(n)
            /\ \E e \in FileEntries(fsContent) : e.name = n /\ e.text # LastCmdText(n) )
          => /\ ValueOf(n) = CellOf(formal[n].Value.typ, LastCmdText(n))
             /\ n \notin FileSetNames

\* The same for the options that have a host variable of their own
C1_OwnVariable ==
    (ret.op = "Parse" /\ ret.err = "nil" /\ fsExists)
    => \A n \in DOMAIN formal :
          ( /\ formal[n].IsFlag /\ formal[n].IsConfig /\ ~Shared(n)
            /\ CmdSupplied(n)
            /\ \E e \in FileEntries(fsContent) : e.name = n /\ e.text # LastCmdText(n) )
          => /\ ValueOf(n) = CellOf(formal[n].Value.typ, LastCmdText(n))
             /\ n \notin FileSetNames

----------------------------------------------------------------------------
(* C2 *)

\* C2: a registration under a name that formal already has panics and leaves
\* formal as it was, whatever the value type, the help text, the initial value
\* and the capability flags of the second registration are.
C2_RegistrationUniqueness ==
    [][\A typ \in Types, family \in Families, form \in Forms, name \in RegNames,
          usage \in Usages, ptr \in Ptrs :
          \A cell \in Defaults(typ) :
             (name \in DOMAIN formal /\ Register(typ, family, form, name, cell, usage, ptr))
             => (status' = "panicked" /\ formal' = formal)]_vars

\* A second registration of a name has panicked
C2_Witness ==
    /\ status = "panicked"
    /\ ret.op = "Var"
    /\ ret.err = "flag redefined"
    /\ formal # NoConfigs

----------------------------------------------------------------------------
(* C3 *)

\* C3: every name in actual is in formal, and actual holds the descriptor
\* formal holds for it.
C3_ActualWithinFormal ==
    \A n \in DOMAIN actual : n \in DOMAIN formal /\ actual[n] = formal[n]

\* Parse and Set have put two options into actual
C3_Witness ==
    /\ Cardinality(DOMAIN actual) = 2
    /\ parsed
    /\ ret.op = "Set"

----------------------------------------------------------------------------
(* C4 *)

\* C4: the default text of an option is the rendering of the value it was
\* registered with, and no later step changes it.
C4_DefaultTextFixed ==
    [][ /\ \A n \in DOMAIN formal' \ DOMAIN formal :
              formal'[n].DefaultValue = ValueString(heap'[formal'[n].Value.ptr])
        /\ \A n \in DOMAIN formal :
              n \in DOMAIN formal' /\ formal'[n].DefaultValue = formal[n].DefaultValue ]_vars

\* An option that was set resolves to a value other than its default text
C4_Witness ==
    \E n \in DOMAIN actual :
       /\ n \in DOMAIN formal
       /\ ValueString(ValueOf(n)) # formal[n].DefaultValue

----------------------------------------------------------------------------
(* C5 *)

\* C5: Set with a name that is not registered returns an error; Parse ends
\* with an error when the command line has an entry for a name that is not
\* registered, and when the file it reads has one; neither adds a name to
\* formal, nor to actual a name formal does not have.
C5_UnknownNameRejected ==
    [][ /\ (\E name \in RegNames \ DOMAIN formal, text \in SetTexts : SetCall(name, text))
           => (ret'.err = "nosuch" /\ formal' = formal /\ actual' = actual)
        /\ ret'.op = "Parse"
           => /\ DOMAIN formal' = DOMAIN formal
              /\ DOMAIN actual' \subseteq DOMAIN formal
              /\ (\E i \in 1..Len(args) : args[i].name \notin DOMAIN formal) => ret'.err # "nil"
              /\ ( /\ ret'.route = "file"
                    /\ \E e \in FileEntries(fsContent) : e.name \notin DOMAIN formal )
                 => ret'.err # "nil"
      ]_vars

\* Parse has met a file entry with a name that is not registered
C5_Witness ==
    /\ ret.op = "Parse"
    /\ ret.route = "file"
    /\ ret.err = "unknown configuration item"
    /\ \E e \in FileEntries(fsContent) : e.name \notin DOMAIN formal
    /\ \A n \in DOMAIN actual : n \in DOMAIN formal

----------------------------------------------------------------------------
(* C6 *)

\* C6: when the file Parse reads has only well-formed lines and an entry
\* whose name is not registered, Parse returns an error to its caller and the
\* process goes on; it does not panic.
C6_UnknownNameReturned ==
    ( /\ ret.op = "Parse"
      /\ ret.route = "file"
      /\ \A l \in SemanticLines(fsContent) : Len(SplitN2(l, delimiter)) = 2
      /\ \E e \in FileEntries(fsContent) : e.name \notin DOMAIN formal )
    => (status = "running" /\ ret.err \notin {"nil", "unknown configuration item"})

----------------------------------------------------------------------------
(* C7 *)

----------------------------------------------------------------------------
(* C8 *)

\* The options the file may set, and their names in strictly increasing order
ConfigNames == {n \in DOMAIN formal : formal[n].IsConfig}
Increasing(S) ==
    IF S = {} THEN {<<>>}
    ELSE {seq \in [1..Cardinality(S) -> S] :
             \A i, j \in 1..Cardinality(S) : i < j => StrLess(seq[i], seq[j])}

\* For the names of seq from the i-th on: the line "# <help>", the line
\* <name><delimiter><default text> and a blank line
RECURSIVE EntryLines(_, _)
EntryLines(seq, i) ==
    IF i > Len(seq) THEN <<>>
    ELSE <<"#", " ">> \o formal[seq[i]].Usage \o <<"\n">>
         \o seq[i] \o delimiter \o formal[seq[i]].DefaultValue \o <<"\n">>
         \o <<"\n">> \o EntryLines(seq, i + 1)

\* C8: the file Parse has written is the two header comments and then, for
\* each option the file may set and for no other, in strictly increasing order
\* of the names, a "# <help>" line and the line <name><delimiter><default
\* text>, with the default text also where the command line has set the option.
C8_DefaultFileContent ==
    (ret.op = "Parse" /\ ret.route = "bootstrap" /\ ret.err = "nil")
    => \E ts \in Timestamps, seq \in Increasing(ConfigNames) :
          fsContent = Header(ts) \o EntryLines(seq, 1)

\* Parse has written the file of a program with two options the file may
\* set, one of which the command line has set to another value
C8_Witness ==
    /\ ret.op = "Parse" /\ ret.route = "bootstrap" /\ ret.err = "nil"
    /\ Cardinality(ConfigNames) = 2
    /\ \E n \in ConfigNames :
          n \in DOMAIN actual /\ ValueString(ValueOf(n)) # formal[n].DefaultValue

----------------------------------------------------------------------------
(* C9 *)

\* C9: when a program that is run without arguments reads the default file
\* its own registrations generate, Parse succeeds and decodes from the file
\* exactly one entry for each option the file may set, with the option's
\* name and default text.
C9_DefaultFileRoundTrip ==
    ( /\ ret.op = "Parse"
      /\ ret.route = "file"
      /\ args = <<>>
      /\ \E ts \in Timestamps :
            fsContent = Header(ts) \o WriteEntries(sortConfigs(formal), delimiter) )
    => /\ status = "running"
       /\ ret.err = "nil"
       /\ Len(ret.fileSets) = Cardinality(ConfigNames)
       /\ {<<ret.fileSets[k][1], ret.fileSets[k][2]>> : k \in 1..Len(ret.fileSets)}
            = {<<n, formal[n].DefaultValue>> : n \in ConfigNames}

\* A text has a line break
HasLineBreak(s) == \E i \in 1..Len(s) : s[i] = "\n"

\* The same for the programs whose help texts and defaults have no line break
C9_WithoutLineBreak ==
    ( /\ ret.op = "Parse"
      /\ ret.route = "file"
      /\ args = <<>>
      /\ \A n \in DOMAIN formal :
            ~HasLineBreak(formal[n].Usage) /\ ~HasLineBreak(formal[n].DefaultValue)
      /\ \E ts \in Timestamps :
            fsContent = Header(ts) \o WriteEntries(sortConfigs(formal), delimiter) )
    => /\ status = "running"
       /\ ret.err = "nil"
       /\ Len(ret.fileSets) = Cardinality(ConfigNames)
       /\ {<<ret.fileSets[k][1], ret.fileSets[k][2]>> : k \in 1..Len(ret.fileSets)}
            = {<<n, formal[n].DefaultValue>> : n \in ConfigNames}

----------------------------------------------------------------------------
(* C10 *)

\* C10: when the file Parse reads has a line that is not blank, not a comment
\* and has no delimiter, and every entry of the file names a registered
\* option, Parse returns a malformed-line error to its caller,
\* and the process goes on.
C10_MalformedLineReturned ==
    ( /\ ret.op = "Parse"
      /\ ret.route = "file"
      /\ \A e \in FileEntries(fsContent) : e.name \in DOMAIN formal
      /\ \E l \in SemanticLines(fsContent) : Len(SplitN2(l, delimiter)) # 2 )
    => (status = "running" /\ ret.err = "malformed line")

----------------------------------------------------------------------------
(* C11 *)

\* A text can be parsed into a type
Parsable(typ, text) == typ = "bool" => text \in ParseBoolTrue \cup ParseBoolFalse

\* C11: when Parse applies a file entry that names a registered option and
\* whose text cannot be parsed into the option's type, Parse returns an
\* error to its caller; it does not return nil.
C11_InvalidFileValueReturned ==
    ( /\ ret.op = "Parse"
      /\ ret.route = "file"
      /\ \E k \in 1..Len(ret.fileSets) :
            /\ ret.fileSets[k][1] \in DOMAIN formal
            /\ ~Parsable(formal[ret.fileSets[k][1]].Value.typ, ret.fileSets[k][2]) )
    => (status = "running" /\ ret.err # "nil")

----------------------------------------------------------------------------
(* C12 *)

\* C12: when a Set that Parse makes for an entry of the command line fails,
\* Parse returns an error to its caller; it does not return nil.
C12_CommandLineFailureReturned ==
    ( /\ ret.op = "Parse"
      /\ \E k \in 1..Len(ret.cmdSets) : ret.cmdSets[k][3] # "nil" )
    => ret.err # "nil"

----------------------------------------------------------------------------
(* C13 *)

\* C13: Set with a name formal does not have returns the error of an unknown
\* option, Set with a text that cannot be parsed into the option's type
\* returns the error of an invalid value, and neither changes actual; every
\* other Set returns nil, after it the name is in actual and the option
\* resolves to the value the text stands for.
C13_SetContract ==
    [][\A name \in RegNames, text \in SetTexts :
          (ret'.op = "Set" /\ SetCall(name, text))
          => IF name \notin DOMAIN formal
             THEN ret'.err = "nosuch" /\ actual' = actual
             ELSE IF ~Parsable(formal[name].Value.typ, text)
             THEN ret'.err = "invalid" /\ actual' = actual
             ELSE /\ ret'.err = "nil"
                  /\ name \in DOMAIN actual'
                  /\ heap'[formal[name].Value.ptr] = CellOf(formal[name].Value.typ, text)]_vars

\* A Set with a text that cannot be parsed has failed for an option that is
\* not in actual, while another option is
C13_Witness ==
    /\ ret.op = "Set"
    /\ ret.err = "invalid"
    /\ \E n \in DOMAIN formal \ DOMAIN actual : formal[n].Value.typ = "bool"
    /\ actual # NoConfigs

----------------------------------------------------------------------------
(* C14 *)

\* C14: Parse applies no file entry that names an option registered for the
\* command line only: it makes no Set for it, so the file changes neither the
\* option's value nor its membership in actual.
C14_FlagOnlyNotSetByFile ==
    (ret.op = "Parse" /\ ret.route = "file")
    => \A n \in FileSetNames : n \in DOMAIN formal => formal[n].IsConfig

\* C15: only the options registered with the command-line capability are
\* exposed to the command line, for every value type: an option whose
\* descriptor has IsFlag false is not defined in the flag package and has
\* not been given a value by the command line.
C15_OnlyFlagOptionsOnCommandLine ==
    \A n \in DOMAIN formal :
        ~formal[n].IsFlag => n \notin DOMAIN flagFormal /\ n \notin flagActual

----------------------------------------------------------------------------
(* C16 *)

\* C16: within one registry parsed never goes from true back to false, and a
\* Parse called when parsed is true leaves parsed true, applies no entry of
\* the file, whatever the file holds by then, and leaves the value of every
\* option and the actual set as the earlier Parse left them (the command
\* line of a process does not change).
C16_ParseOnce ==
    [][ /\ (parsed /\ ~parsed') => (formal' = NoConfigs /\ ret' = Idle)
        /\ (parsed /\ ret'.op = "Parse")
           => /\ parsed'
              /\ ret'.fileSets = <<>>
              /\ actual' = actual
              /\ \A n \in DOMAIN formal : ValueOf(n)' = ValueOf(n) ]_vars

\* The same, the values being those of the options that have a host variable
\* of their own
C16_OwnVariable ==
    [][ /\ (parsed /\ ~parsed') => (formal' = NoConfigs /\ ret' = Idle)
        /\ (parsed /\ ret'.op = "Parse")
           => /\ parsed'
              /\ ret'.fileSets = <<>>
              /\ actual' = actual
              /\ \A n \in DOMAIN formal : ~Shared(n) => ValueOf(n)' = ValueOf(n) ]_vars

----------------------------------------------------------------------------
(* C17 *)

\* C17: a Parse that finds a file at the path leaves the file there with
\* the content it had, whatever the command line and the content are.
C17_ExistingFileKept ==
    [][ (fsExists /\ ret'.op = "Parse") => (fsExists' /\ fsContent' = fsContent) ]_vars

\* Parse has read the file a bootstrap run wrote, in a process whose command
\* line supplies an option the file has another text for, and the option
\* has the value of the command line
C17_Witness ==
    /\ ret.op = "Parse" /\ ret.route = "file" /\ ret.err = "nil"
    /\ fsExists /\ \E ts \in Timestamps : HasPrefix(fsContent, Header(ts))
    /\ \E n \in DOMAIN formal :
          /\ CmdSupplied(n)
          /\ \E e \in FileEntries(fsContent) : e.name = n /\ e.text # LastCmdText(n)
          /\ ValueOf(n) = CellOf(formal[n].Value.typ, LastCmdText(n))

----------------------------------------------------------------------------
(* C18 *)

\* The reference decoding.  A text without the white space at its ends
RefTrim(s) ==
    LET idx == {i \in 1..Len(s) : ~IsSpace(s[i])}
    IN IF idx = {} THEN <<>>
       ELSE SubSeq(s, CHOOSE i \in idx : \A j \in idx : i <= j,
                      CHOOSE i \in idx : \A j \in idx : j <= i)
\* A line that is not blank and not a comment
Semantic(line) == RefTrim(line) # <<>> /\ RefTrim(line)[1] # "#"
\* The places of a line where the delimiter occurs
DelimiterAt(l, d) == {k \in 1..(Len(l) - Len(d) + 1) : SubSeq(l, k, k + Len(d) - 1) = d}
\* The pair of a semantic line that has the delimiter: what is before its
\* first occurrence and what is after it, both trimmed
DecodeLine(line, d) ==
    LET l == RefTrim(line)
        k == CHOOSE i \in DelimiterAt(l, d) : \A j \in DelimiterAt(l, d) : i <= j
    IN <<RefTrim(SubSeq(l, 1, k - 1)), RefTrim(SubSeq(l, k + Len(d), Len(l)))>>
\* The pairs of the lines, in line order
RECURSIVE DecodeRef(_, _)
DecodeRef(lines, d) ==
    IF lines = <<>> THEN <<>>
    ELSE (IF Semantic(Head(lines)) /\ DelimiterAt(RefTrim(Head(lines)), d) # {}
          THEN <<DecodeLine(Head(lines), d)>> ELSE <<>>)
         \o DecodeRef(Tail(lines), d)
\* Every semantic line has the delimiter and the name of an option
Decodable(lines, d) ==
    \A i \in 1..Len(lines) :
        Semantic(lines[i])
        => /\ DelimiterAt(RefTrim(lines[i]), d) # {}
           /\ DecodeLine(lines[i], d)[1] \in DOMAIN formal
\* The pairs that are applied: a name that is in actual by then is skipped
\* (a Set of a string option always puts its name in actual)
RECURSIVE FirstPerName(_, _)
FirstPerName(pairs, seen) ==
    IF pairs = <<>> THEN <<>>
    ELSE IF Head(pairs)[1] \in seen THEN FirstPerName(Tail(pairs), seen)
    ELSE <<Head(pairs)>> \o FirstPerName(Tail(pairs), seen \cup {Head(pairs)[1]})
\* Name and text of the Set calls Parse made from the file
FilePairs(sets) == [k \in 1..Len(sets) |-> <<sets[k][1], sets[k][2]>>]

\* C18: the file phase of Parse decodes, in line order, one pair for each
\* line that after trimming is not empty and does not begin with '#': the
\* trimmed text before the first occurrence of the delimiter and the trimmed
\* text after it, which may hold the delimiter or '#'; when every such line
\* has the delimiter and an option's name Parse succeeds and the pairs it
\* applies are these (those of names not yet in actual).  Blank lines and
\* comment lines yield nothing: the file without them is decoded to the same
\* calls, values and result.
C18_DecodeReference ==
    [][ (ret'.op = "Parse" /\ ret'.route = "file")
        => \E lines \in {SplitLines(fsContent)}, cmd \in {ParseCommandLine} :
              /\ Decodable(lines, delimiter)
                 => /\ ret'.err = "nil"
                    /\ FilePairs(ret'.fileSets)
                         = FirstPerName(DecodeRef(lines, delimiter), DOMAIN cmd.actual)
              /\ \E clean \in {ParseLines(SelectSeq(lines, Semantic), 0, cmd.actual,
                                          cmd.heap, <<>>)} :
                    /\ clean.sets = ret'.fileSets
                    /\ clean.actual = actual'
                    /\ clean.heap = heap'
                    /\ clean.panic = (IF ret'.err = "nil" THEN "" ELSE ret'.err) ]_vars

\* Parse has decoded a file with a blank or comment line before an entry, a
\* value that holds the delimiter, and a value that begins with '#'
C18_Witness ==
    /\ ret.op = "Parse" /\ ret.route = "file" /\ ret.err = "nil"
    /\ \E i, j \in 1..Len(SplitLines(fsContent)) :
          i < j /\ ~Semantic(SplitLines(fsContent)[i]) /\ Semantic(SplitLines(fsContent)[j])
    /\ \E k \in 1..Len(ret.fileSets) : DelimiterAt(ret.fileSets[k][2], delimiter) # {}
    /\ \E k \in 1..Len(ret.fileSets) : HasPrefix(ret.fileSets[k][2], <<"#">>)

----------------------------------------------------------------------------
(* C19 *)

\* The file this registry generates with the delimiter in force
GeneratedFiles ==
    {Header(ts) \o EntryLines(seq, 1) : ts \in Timestamps, seq \in Increasing(ConfigNames)}

\* C19: the delimiter is "=" until SetDelimiter is called and is then the
\* string of the last call; the default file Parse writes has that delimiter
\* between each name and its default text, and the file phase splits each
\* line on that same delimiter, so that a program which reads the default
\* file it generates with its delimiter decodes every name and default text.
C19_DelimiterConsistency ==
    /\ delimiter = <<"=">>
    /\ [][ /\ \A d \in Delimiters : SetDelimiter(d) => delimiter' = d
           /\ delimiter' # delimiter
              => \/ \E d \in Delimiters : SetDelimiter(d)
                 \/ formal' = NoConfigs /\ delimiter' = <<"=">>
           /\ (ret'.op = "Parse" /\ ret'.route = "bootstrap" /\ ret'.err = "nil")
              => fsContent' \in GeneratedFiles
           /\ (ret'.op = "Parse" /\ ret'.route = "file")
              => /\ \A k \in 1..Len(ret'.fileSets) :
                       \E i \in 1..Len(SplitLines(fsContent)) :
                          /\ Semantic(SplitLines(fsContent)[i])
                          /\ DelimiterAt(RefTrim(SplitLines(fsContent)[i]), delimiter) # {}
                          /\ DecodeLine(SplitLines(fsContent)[i], delimiter)
                               = FilePairs(ret'.fileSets)[k]
                 /\ fsContent \in GeneratedFiles
                    => /\ ret'.err = "nil"
                       /\ \E seq \in Increasing(ConfigNames) :
                             FilePairs(ret'.fileSets)
                               = [k \in 1..Len(seq) |-> <<seq[k], formal[seq[k]].DefaultValue>>]
         ]_vars

\* With the delimiter set to ":", Parse has read the default file an earlier
\* run of the program generated with ":", and has decoded its entries
C19_Witness ==
    /\ ret.op = "Parse" /\ ret.route = "file" /\ ret.err = "nil"
    /\ delimiter = <<":">>
    /\ fsContent \in GeneratedFiles
    /\ Len(ret.fileSets) = 2

----------------------------------------------------------------------------
(* C20 *)

\* The names of a sequence are in strictly increasing order
StrictlyIncreasing(seq) == \A i, j \in 1..Len(seq) : i < j => StrLess(seq[i], seq[j])

\* C20: VisitAll has called fn exactly once for every option of formal and
\* Visit exactly once for every option of actual and for no other, in
\* strictly increasing order of the names, whatever the order of the
\* registrations and of the Set calls was.
C20_VisitOrder ==
    /\ ret.op = "VisitAll"
       => /\ StrictlyIncreasing(ret.visited)
          /\ {ret.visited[i] : i \in 1..Len(ret.visited)} = DOMAIN formal
    /\ ret.op = "Visit"
       => /\ StrictlyIncreasing(ret.visited)
          /\ {ret.visited[i] : i \in 1..Len(ret.visited)} = DOMAIN actual

\* Visit has called fn for a name and then for a name it is a prefix of,
\* and not for the third option, which has not been set
C20_Witness ==
    /\ ret.op = "Visit"
    /\ ret.visited = << <<"a">>, <<"a", "b">> >>
    /\ Cardinality(DOMAIN formal) = 3

----------------------------------------------------------------------------
(* C21 *)

\* The call of the file system that fails in a Parse with this fault: os.Stat
\* always, ioutil.ReadFile when the file is there and has not been parsed,
\* os.Create when the file is not there
Failing(fault) ==
    \/ fault = "stat"
    \/ fault = "read" /\ fsExists /\ ~parsed
    \/ fault = "create" /\ ~fsExists

\* C21: when os.Stat fails for another reason than absence, when reading
\* the file fails or when creating the default file fails, Parse returns
\* that error and applies no entry of the file: the values and actual are
\* those the command line has left.
C21_IOFailureReturned ==
    [][ \A fault \in Faults \ {"none"}, ts \in Timestamps :
           ( /\ ret'.op = "Parse" /\ ret'.route # "flag"
             /\ Failing(fault)
             /\ Parse(fault, ts) )
           => /\ ret'.err = fault
              /\ ret'.fileSets = <<>>
              /\ actual' = ParseCommandLine.actual
              /\ heap' = ParseCommandLine.heap ]_vars

\* Parse has returned the error of ioutil.ReadFile for a file that has an
\* entry for a registered option the command line has not set
C21_Witness ==
    /\ ret.op = "Parse" /\ ret.err = "read"
    /\ \E e \in FileEntries(fsContent) : e.name \in DOMAIN formal \ DOMAIN actual

----------------------------------------------------------------------------
(* C22 *)

\* The file the default path is to name: .<prog>rc in the home directory
\* when there is one, .<prog>rc in the current directory otherwise
ExpectedPath(resolved, home, prog) ==
    IF resolved THEN Clean(home \o <<"/", ".">> \o prog \o <<"r", "c">>)
    ELSE Clean(<<".", "/", ".">> \o prog \o <<"r", "c">>)

\* C22: for a program name P, DefaultConfigPath returns a path of the file
\* .Prc in the user's home directory when the home directory is resolved,
\* and a path of the file .Prc in the current directory otherwise.
C22_DefaultConfigPath ==
    ret.op = "DefaultConfigPath"
    => Clean(ret.returned) = ExpectedPath(ret.given[1], ret.given[2], ret.given[3])

\* The same when no home directory is resolved
C22_WithoutHome ==
    (ret.op = "DefaultConfigPath" /\ ~ret.given[1])
    => Clean(ret.returned) = ExpectedPath(ret.given[1], ret.given[2], ret.given[3])

----------------------------------------------------------------------------
(* C23 *)

\* C23: for every variant of value (bool, int, int64, uint, uint64, string,
\* duration) and every value of its domain, setting an option of that
\* variant from the rendering of the value it holds succeeds and leaves the
\* value as it was.
C23_ValueRoundTrip ==
    (ret.op = "Set" /\ ret.given # <<>>)
    => /\ ret.err = "nil"
       /\ ValueOf(ret.given[1]) = ret.given[2]

\* An option whose duration is a minute and a half has been set from its
\* rendering, and an int option holds the value a text with a leading zero
\* has given it
C23_Witness ==
    /\ ret.op = "Set" /\ ret.given # <<>> /\ ret.err = "nil"
    /\ ret.given[2] = NumCell("duration", <<"1", "m", "3", "0", "s">>)
    /\ \E n \in DOMAIN formal : ValueOf(n) = NumCell("int", <<"8">>)

----------------------------------------------------------------------------
(* C24 *)

\* The names the file has an entry for, when there is a file
FileNamed == IF fsExists THEN {e.name : e \in FileEntries(fsContent)} ELSE {}

\* C24: after the first Parse that completes, with success, actual is
\* exactly the options the command line has given a value and the options
\* a file entry has been applied to with success; an option that neither
\* the command line nor the file names is not in actual and has the value
\* it was registered with.
C24_ActualFrame ==
    [][ (ret'.op = "Parse" /\ ret'.err = "nil" /\ ~parsed)
        => /\ DOMAIN actual'
                = {n \in DOMAIN formal : CmdSupplied(n)'}
                  \cup {ret'.fileSets[k][1] : k \in {i \in 1..Len(ret'.fileSets) :
                                                       ret'.fileSets[i][3] = "nil"}}
           /\ \A n \in DOMAIN formal :
                 (~CmdSupplied(n)' /\ n \notin FileNamed)
                 => /\ n \notin DOMAIN actual'
                    /\ ValueString(ValueOf(n)') = formal[n].DefaultValue ]_vars

\* The same, the values being those of the options that have a host variable
\* of their own
C24_OwnVariable ==
    [][ (ret'.op = "Parse" /\ ret'.err = "nil" /\ ~parsed)
        => /\ DOMAIN actual'
                = {n \in DOMAIN formal : CmdSupplied(n)'}
                  \cup {ret'.fileSets[k][1] : k \in {i \in 1..Len(ret'.fileSets) :
                                                       ret'.fileSets[i][3] = "nil"}}
           /\ \A n \in DOMAIN formal :
                 (~CmdSupplied(n)' /\ n \notin FileNamed)
                 => /\ n \notin DOMAIN actual'
                    /\ ~Shared(n) => ValueString(ValueOf(n)') = formal[n].DefaultValue ]_vars

----------------------------------------------------------------------------
(* C25 *)

\* C25: when two options are registered on one variable and the command
\* line supplies a value under one of the names, the variable has that
\* value after Parse, also when the file has an entry for the other name.
C25_SharedPrecedence ==
    (ret.op = "Parse" /\ ret.route = "file" /\ ret.err = "nil")
    => \A n, m \in DOMAIN formal :
          ( /\ n # m
            /\ formal[n].Value.ptr = formal[m].Value.ptr
            /\ CmdSupplied(n) /\ ~CmdSupplied(m)
            /\ m \in FileNamed )
          => ValueOf(n) = CellOf(formal[n].Value.typ, LastCmdText(n))

----------------------------------------------------------------------------
(* C26 *)

\* C26: for every value type and at both levels, a registration through a
\* plain constructor (X, XVar) gives the option the capabilities (true, true),
\* through XFlag or XFlagVar (true, false), through XConfig or XConfigVar
\* (false, true).
C26_FamilyCapabilities ==
    [][ \A typ \in AllTypes, family \in Families, form \in Forms, level \in Levels,
           name \in RegNames :
           ( /\ name \in DOMAIN formal' \ DOMAIN formal
             /\ formal'[name].Value.typ = typ
             /\ RegisterCtor(typ, family, form, level, name) )
           => /\ formal'[name].IsFlag = (family # "Config")
              /\ formal'[name].IsConfig = (family # "Flag") ]_vars

----------------------------------------------------------------------------
(* C27 *)

\* C27: a Set that returns an error because the text cannot be parsed into
\* the type of the option leaves the value of the option and actual as they
\* were, for every built-in variant.
C27_FailedSetChangesNothing ==
    [][ \A name \in RegNames, text \in ValueTexts :
           ( /\ ret'.op = "Set" /\ ret'.err = "invalid"
             /\ name \in DOMAIN formal
             /\ SetCall(name, text) )
           => /\ ValueOf(name)' = ValueOf(name)
              /\ actual' = actual ]_vars

\* The same for actual alone
C27_FailedSetKeepsActual ==
    [][ \A name \in RegNames, text \in ValueTexts :
           ( /\ ret'.op = "Set" /\ ret'.err = "invalid"
             /\ name \in DOMAIN formal
             /\ SetCall(name, text) )
           => actual' = actual ]_vars

----------------------------------------------------------------------------
(* C28 *)

\* The texts of the entries of the file for a name, in line order, and the
\* place of the first of them that the type of the option accepts (0 when
\* there is none)
TextsOf(n) ==
    LET pairs == DecodeRef(SplitLines(fsContent), delimiter)
        at == {k \in 1..Len(pairs) : pairs[k][1] = n}
    IN [i \in 1..Cardinality(at) |->
          pairs[CHOOSE k \in at : Cardinality({m \in at : m < k}) = i - 1][2]]
FirstParsable(typ, texts) ==
    IF \E i \in 1..Len(texts) : Parsable(typ, texts[i])
    THEN CHOOSE i \in 1..Len(texts) :
            Parsable(typ, texts[i]) /\ \A j \in 1..(i - 1) : ~Parsable(typ, texts[j])
    ELSE 0
\* The texts Parse has called Set with for a name, in order
SetTextsOf(n) ==
    LET at == {k \in 1..Len(ret.fileSets) : ret.fileSets[k][1] = n}
    IN [i \in 1..Cardinality(at) |->
          ret.fileSets[CHOOSE k \in at : Cardinality({m \in at : m < k}) = i - 1][2]]

\* C28: when the file has several entries for an option the command line
\* has not supplied, the option resolves to the first entry whose text its
\* type accepts, and no later entry for the name is applied.
C28_FirstEntryWins ==
    (ret.op = "Parse" /\ ret.route = "file" /\ ret.err = "nil")
    => \A n \in DOMAIN formal :
          \E texts \in {TextsOf(n)} :
          \E first \in {FirstParsable(formal[n].Value.typ, texts)} :
             (~CmdSupplied(n) /\ Len(texts) > 1 /\ first > 0)
             => /\ ValueOf(n) = CellOf(formal[n].Value.typ, texts[first])
                /\ SetTextsOf(n) = SubSeq(texts, 1, first)

\* The same for the options that have a host variable of their own
C28_OwnVariable ==
    (ret.op = "Parse" /\ ret.route = "file" /\ ret.err = "nil")
    => \A n \in DOMAIN formal :
          \E texts \in {TextsOf(n)} :
          \E first \in {FirstParsable(formal[n].Value.typ, texts)} :
             (~CmdSupplied(n) /\ ~Shared(n) /\ Len(texts) > 1 /\ first > 0)
             => /\ ValueOf(n) = CellOf(formal[n].Value.typ, texts[first])
                /\ SetTextsOf(n) = SubSeq(texts, 1, first)

\* A parse of a file whose first entry for b is refused and whose next two
\* are accepted, b having a variable of its own
C28_RepeatedCase ==
    /\ ret.op = "Parse" /\ ret.route = "file"
    /\ <<"b">> \in DOMAIN formal /\ ~Shared(<<"b">>)
    /\ TextsOf(<<"b">>) = <<<<"y">>, <<"1">>, <<"0">>>>
    /\ ValueOf(<<"b">>) = BoolCell(TRUE)

----------------------------------------------------------------------------
(* C29 *)

\* C29: a Parse that returns the error of os.Stat, of ioutil.ReadFile or of
\* os.Create leaves parsed false, so that a later Parse reads the file.
C29_ParsedOnlyOnSuccess ==
    [][ \A fault \in Faults \ {"none"}, ts \in Timestamps :
           ( /\ ~parsed
             /\ ret'.op = "Parse" /\ ret'.err \in {"stat", "read", "create"}
             /\ Failing(fault)
             /\ Parse(fault, ts) )
           => ~parsed' ]_vars

\* The same for the errors of os.Stat and of ioutil.ReadFile alone
C29_StatReadKeepParsed ==
    [][ \A fault \in {"stat", "read"}, ts \in Timestamps :
           ( /\ ~parsed
             /\ ret'.op = "Parse" /\ ret'.err \in {"stat", "read"}
             /\ Failing(fault)
             /\ Parse(fault, ts) )
           => ~parsed' ]_vars

----------------------------------------------------------------------------
(* C30 *)

\* C30: WriteDefaultConfig, which Parse calls when the file is absent, leaves
\* c.output as it was before the call, whether the file was written or
\* os.Create failed, and the notice is what it has written to that sink.
C30_SinkUnchanged ==
    [][ \A fault \in {"none", "create"}, ts \in Timestamps :
           ( /\ ret'.op = "Parse" /\ ret'.route = "bootstrap"
             /\ Parse(fault, ts) )
           => /\ output' = output
              /\ ret'.notice = out ]_vars

\* The same for the calls that have written the file
C30_SinkRestoredOnSuccess ==
    [][ \A ts \in Timestamps :
           ( /\ ret'.op = "Parse" /\ ret'.route = "bootstrap" /\ ret'.err = "nil"
             /\ Parse("none", ts) )
           => /\ output' = output
              /\ ret'.notice = out ]_vars

\* The default file has been written by a Parse that found none
C30_WrittenCase ==
    /\ ret.op = "Parse" /\ ret.route = "bootstrap" /\ ret.err = "nil"
    /\ fsExists /\ output = "nil" /\ ret.notice = "stderr"

====
